---- MODULE Spec2Model ----
(***************************************************************************)
(* Car-rental booking backend: the booking routes of src/index.js (the     *)
(* /api/... routes, here "main") and of src/unnamed/part_001 (the older    *)
(* /bookings... routes, here "legacy") over one shared document store      *)
(* (database carDB, collections rental and bookings).                      *)
(*                                                                         *)
(* Time is counted in units of a third of a day (dayMs == 3), so that a    *)
(* range can be a whole number of days, less than a day, or a day and a    *)
(* fraction.  Prices are exact rationals <<numerator, denominator>>; the   *)
(* code computes them in floating point.                                   *)
(*                                                                         *)
(* A store operation (findOne, insertOne, updateOne) is one atomic step;   *)
(* a handler is the sequence of its store operations, each step also doing *)
(* the local computation that follows the awaited call.  The arrival of a  *)
(* request touches no shared state, so it is folded into the handler's     *)
(* first store operation.                                                  *)
(***************************************************************************)
EXTENDS Integers, Sequences, FiniteSets, TLC

VARIABLES cars, bookings, reqs, ops, conn, calls

vars == <<cars, bookings, reqs, ops, conn, calls>>

\* The module state of connectDB and its callers; the routes above the
\* connection leave it alone.
connVars == <<conn, calls>>

storeVars == <<cars, bookings, reqs, ops>>

(* ------------------------------ bounds -------------------------------- *)

\* At most this many bookings are ever inserted.
MaxBookings == 2

\* At most this many requests are ever received.
MaxOps == 3

\* One day, in model time units (1000 * 60 * 60 * 24 ms in the code).
dayMs == 3

Users == {"ann", "bob"}

\* The cars of the store; car 1 is listed by ann, car 2 by bob.
CarIds == {1, 2}

\* A carId of a request: 0 is a string that is no ObjectId, 3 a well-formed
\* id of no car.
CarIdInputs == 0..3

\* A booking id of a request: 0 is a string that is no ObjectId, an id above
\* Len(bookings) a well-formed id of no booking.
BookingIdInputs == 0..MaxBookings

Prices == {50, 80}

\* new Date(x) of a string that does not parse: an Invalid Date, whose time
\* value is NaN.
NaN == 0 - 1

\* Instants a request can name: the epoch, a third of a day later, and a day
\* after that.
Dates == {0, 1, dayMs + 1}

DateInputs == Dates \cup {NaN}

Slots == {1, 2}

(* --------------------------- JS arithmetic ---------------------------- *)

Max(a, b) == IF a >= b THEN a ELSE b

Abs(a) == IF a >= 0 THEN a ELSE 0 - a

\* Math.ceil(n / d), d > 0
Ceil(n, d) == 0 - ((0 - n) \div d)

\* Math.round(n / d), d > 0: the nearest integer, a half rounding up
Round(n, d) == (2 * n + d) \div (2 * d)

\* isNaN(date)
IsNaN(d) == d = NaN

\* date < date and date >= date: false when either side is an Invalid Date
Lt(a, b) == ~IsNaN(a) /\ ~IsNaN(b) /\ a < b

Ge(a, b) == ~IsNaN(a) /\ ~IsNaN(b) /\ a >= b

\* The driver writes a Date as its 64-bit time value; an Invalid Date goes out
\* as time value 0, in a document and in a query alike.
StoreDate(d) == IF IsNaN(d) THEN 0 ELSE d

RECURSIVE Gcd(_, _)
Gcd(a, b) == IF b = 0 THEN a ELSE Gcd(b, a % b)

\* A price: <<n, d>> with d > 0 in lowest terms, or PNaN.
PNaN == <<0, 0>>

Norm(n, d) == LET g == Gcd(Abs(n), d) IN <<n \div g, d \div g>>

PriceOf(k) == <<k, 1>>

\* days * price and price / days in JS numbers; days = NaN is a NaN count
Times(days, p) ==
    IF IsNaN(days) \/ p = PNaN THEN PNaN ELSE Norm(days * p[1], p[2])

Over(p, days) ==
    IF IsNaN(days) \/ p = PNaN THEN PNaN ELSE Norm(p[1], p[2] * days)

(* ------------------------------ requests ------------------------------ *)

Idle ==
    [op |-> "none", pc |-> "idle", email |-> "", id |-> 0, s |-> 0, e |-> 0,
     loc |-> <<>>, resp |-> 0, wrote |-> FALSE, touched |-> FALSE,
     bad |-> FALSE]

\* A request that has been answered with status code resp; wrote tells
\* whether it changed the store before that.  touched and bad are not data
\* of the program: touched tells whether the handler had called the store
\* (connectDB aside) when it answered or was suspended, bad whether the
\* request's id or one of its dates is malformed.
Done(op, email, id, resp, wrote) ==
    [op |-> op, pc |-> "done", email |-> email, id |-> id, s |-> 0, e |-> 0,
     loc |-> <<>>, resp |-> resp, wrote |-> wrote, touched |-> TRUE,
     bad |-> FALSE]

InFlight(op, pc, email, id, s, e, loc, wrote) ==
    [op |-> op, pc |-> pc, email |-> email, id |-> id, s |-> s, e |-> e,
     loc |-> loc, resp |-> 0, wrote |-> wrote, touched |-> TRUE,
     bad |-> FALSE]

\* new Date(x) is an Invalid Date for one of the two dates
Malformed(s, e) == IsNaN(s) \/ IsNaN(e)

Flag(q, touched, bad) == [q EXCEPT !.touched = touched, !.bad = bad]

\* The answer of a request in progress
Reply(q, resp, wrote) ==
    [Done(q.op, q.email, q.id, resp, wrote) EXCEPT !.bad = q.bad]

Busy(r) == reqs[r].pc \notin {"idle", "done"}

\* The request waits for a store call to settle; a request at "lost" has no
\* handler left to answer it.
Awaiting(r) == Busy(r) /\ reqs[r].pc # "lost"

\* Creates that have not inserted yet
PendingInserts ==
    Cardinality({q \in Slots : reqs[q].pc \in {"findOverlap", "insert"}})

CanBegin(r) == ~Busy(r) /\ ops < MaxOps

CanBeginCreate(r) ==
    CanBegin(r) /\ Len(bookings) + PendingInserts < MaxBookings

\* ObjectId.isValid(id)
ObjectIdIsValid(id) == id # 0

Active(b) == b.bookingStatus \in {"pending", "confirmed"}

BookingIds == 1..Len(bookings)

(* ------------------- main routes: src/index.js ------------------------ *)

\* The overlap query with $lt and $gt in place of $lte and $gte: ranges that
\* only touch are not found.
FindOverlap_Exclusive(carId, start, end) ==
    {i \in BookingIds :
        /\ bookings[i].carId = <<"oid", carId>>
        /\ Active(bookings[i])
        /\ bookings[i].startDate < StoreDate(end)
        /\ bookings[i].endDate > StoreDate(start)}

\* bookings.findOne({carId: new ObjectId(carId), bookingStatus: {$in:
\* [pending, confirmed]}, startDate: {$lte: end}, endDate: {$gte: start}})
FindOverlap(carId, start, end) ==
    {i \in BookingIds :
        /\ bookings[i].carId = <<"oid", carId>>
        /\ Active(bookings[i])
        /\ bookings[i].startDate <= StoreDate(end)
        /\ bookings[i].endDate >= StoreDate(start)}

\* Math.max(1, Math.ceil((end - start) / dayMs))
TotalDays(start, end) ==
    IF IsNaN(start) \/ IsNaN(end) THEN NaN
    ELSE Max(1, Ceil(end - start, dayMs))

\* POST /api/bookings up to the first store read and the checks after it
CreateBooking_Begin(r, D) ==
    /\ CanBeginCreate(r)
    /\ \E email \in Users, carId \in CarIdInputs, start \in D,
          end \in D :
          reqs' = [reqs EXCEPT ![r] =
            IF ~ObjectIdIsValid(carId)
              THEN Flag(Done("create", email, carId, 400, FALSE), FALSE, TRUE)
            ELSE IF carId \notin CarIds
              THEN Flag(Done("create", email, carId, 404, FALSE),
                        TRUE, Malformed(start, end))
            ELSE IF IsNaN(start) \/ IsNaN(end)
              THEN Flag(Done("create", email, carId, 400, FALSE), TRUE, TRUE)
            ELSE IF Lt(end, start)
              THEN Done("create", email, carId, 400, FALSE)
            ELSE InFlight("create", "findOverlap", email, carId, start, end,
                          <<cars[carId].dailyPrice>>, FALSE)]
    /\ ops' = ops + 1
    /\ UNCHANGED <<cars, bookings, conn, calls>>

\* The overlap step with the counter incremented before the 409 is sent.
CreateBooking_FindOverlap_CountFirst(r) ==
    /\ reqs[r].op = "create" /\ reqs[r].pc = "findOverlap"
    /\ LET q == reqs[r]
           hit == FindOverlap(q.id, q.s, q.e) # {} IN
         /\ reqs' = [reqs EXCEPT ![r] =
              IF hit
                THEN Reply(q, 409, FALSE)
                ELSE [q EXCEPT !.pc = "insert",
                               !.loc = <<q.loc[1], Len(bookings)>>]]
         /\ cars' = IF hit
                      THEN [cars EXCEPT ![q.id].bookingCount = @ + 1]
                      ELSE cars
    /\ UNCHANGED <<bookings, ops, conn, calls>>

\* the overlap query and the 409
CreateBooking_FindOverlap(r) ==
    /\ reqs[r].op = "create" /\ reqs[r].pc = "findOverlap"
    /\ LET q == reqs[r] IN
         reqs' = [reqs EXCEPT ![r] =
           IF FindOverlap(q.id, q.s, q.e) # {}
             THEN Reply(q, 409, FALSE)
             ELSE [q EXCEPT !.pc = "insert",
                            !.loc = <<q.loc[1], Len(bookings)>>]]
    /\ UNCHANGED <<cars, bookings, ops, conn, calls>>

\* the booking document built at index.js:385-395.  rate and seen are not
\* fields of the document: rate records the daily price the request read from
\* the car, seen the number of bookings stored when its overlap query ran.
NewBooking(q) ==
    [carId |-> <<"oid", q.id>>,
     ownerEmail |-> q.email,
     startDate |-> StoreDate(q.s),
     endDate |-> StoreDate(q.e),
     totalPrice |-> Times(TotalDays(q.s, q.e), PriceOf(q.loc[1])),
     bookingStatus |-> "pending",
     rate |-> q.loc[1],
     seen |-> q.loc[2]]

\* bookings.insertOne(booking)
CreateBooking_Insert(r) ==
    /\ reqs[r].op = "create" /\ reqs[r].pc = "insert"
    /\ bookings' = Append(bookings, NewBooking(reqs[r]))
    /\ reqs' = [reqs EXCEPT ![r].pc = "inc", ![r].wrote = TRUE]
    /\ UNCHANGED <<cars, ops, conn, calls>>

\* Variant of the increment of the create route: the counter goes up by two.
CreateBooking_IncCount_Twice(r) ==
    /\ reqs[r].op = "create" /\ reqs[r].pc = "inc"
    /\ cars' = [cars EXCEPT ![reqs[r].id].bookingCount = @ + 2]
    /\ reqs' = [reqs EXCEPT ![r] =
                  Reply(reqs[r], 200, TRUE)]
    /\ UNCHANGED <<bookings, ops, conn, calls>>

\* cars.updateOne({_id}, {$inc: {bookingCount: 1}}) and the response
CreateBooking_IncCount(r) ==
    /\ reqs[r].op = "create" /\ reqs[r].pc = "inc"
    /\ cars' = [cars EXCEPT ![reqs[r].id].bookingCount = @ + 1]
    /\ reqs' = [reqs EXCEPT ![r] =
                  Reply(reqs[r], 200, TRUE)]
    /\ UNCHANGED <<bookings, ops, conn, calls>>

\* The confirm route without the comparison of ownerEmail with the caller.
ConfirmBooking_Begin_NoOwnerCheck(r) ==
    /\ CanBegin(r)
    /\ \E email \in Users, id \in BookingIdInputs :
          reqs' = [reqs EXCEPT ![r] =
            IF ~ObjectIdIsValid(id)
              THEN Flag(Done("confirm", email, id, 400, FALSE), FALSE, TRUE)
            ELSE IF id \notin BookingIds
              THEN Done("confirm", email, id, 403, FALSE)
            ELSE InFlight("confirm", "update", email, id, 0, 0, <<>>, FALSE)]
    /\ ops' = ops + 1
    /\ UNCHANGED <<cars, bookings, conn, calls>>

\* PUT /api/bookings/confirm/:id up to the read of the booking
ConfirmBooking_Begin(r) ==
    /\ CanBegin(r)
    /\ \E email \in Users, id \in BookingIdInputs :
          reqs' = [reqs EXCEPT ![r] =
            IF ~ObjectIdIsValid(id)
              THEN Flag(Done("confirm", email, id, 400, FALSE), FALSE, TRUE)
            ELSE IF id \notin BookingIds \/ bookings[id].ownerEmail # email
              THEN Done("confirm", email, id, 403, FALSE)
            ELSE InFlight("confirm", "update", email, id, 0, 0, <<>>, FALSE)]
    /\ ops' = ops + 1
    /\ UNCHANGED <<cars, bookings, conn, calls>>

\* result.modifiedCount of updateOne({_id}, {$set: {bookingStatus:
\* "confirmed"}}): 0 when the booking is already confirmed
ModifiedCount(b) == IF b.bookingStatus = "confirmed" THEN 0 ELSE 1

\* The confirm route answering 409 for a booking that is already confirmed.
ConfirmBooking_Update_Strict(r) ==
    /\ reqs[r].op = "confirm" /\ reqs[r].pc = "update"
    /\ IF bookings[reqs[r].id].bookingStatus = "confirmed"
         THEN /\ reqs' = [reqs EXCEPT ![r] = Reply(reqs[r], 409, FALSE)]
              /\ UNCHANGED bookings
         ELSE /\ bookings' =
                   [bookings EXCEPT ![reqs[r].id].bookingStatus = "confirmed"]
              /\ reqs' = [reqs EXCEPT ![r] =
                            [Reply(reqs[r], 200, TRUE) EXCEPT !.loc = <<1>>]]
    /\ UNCHANGED <<cars, ops, conn, calls>>

\* bookings.updateOne({_id}, {$set: {bookingStatus: "confirmed"}}) and
\* res.send(result)
ConfirmBooking_Update(r) ==
    /\ reqs[r].op = "confirm" /\ reqs[r].pc = "update"
    /\ bookings' = [bookings EXCEPT ![reqs[r].id].bookingStatus = "confirmed"]
    /\ reqs' = [reqs EXCEPT ![r] =
                  [Reply(reqs[r], 200, TRUE) EXCEPT
                     !.loc = <<ModifiedCount(bookings[reqs[r].id])>>]]
    /\ UNCHANGED <<cars, ops, conn, calls>>

\* newDays * dailyRate of index.js:437-440, from the booking as read
ModifiedPrice(existing, newStart, newEnd) ==
    LET oldDays == TotalDays(existing.startDate, existing.endDate)
        dailyRate == Over(existing.totalPrice, oldDays)
        newDays == TotalDays(newStart, newEnd)
    IN Times(newDays, dailyRate)

\* PUT /api/bookings/modify/:id up to the read of the booking, the checks
\* and the price
ModifyBooking_Begin(r, D) ==
    /\ CanBegin(r)
    /\ \E email \in Users, id \in BookingIdInputs, newStart \in D,
          newEnd \in D :
          reqs' = [reqs EXCEPT ![r] =
            IF ~ObjectIdIsValid(id)
              THEN Flag(Done("modify", email, id, 400, FALSE), FALSE, TRUE)
            ELSE IF id \notin BookingIds \/ bookings[id].ownerEmail # email
              THEN Flag(Done("modify", email, id, 403, FALSE),
                        TRUE, Malformed(newStart, newEnd))
            ELSE IF Lt(newEnd, newStart)
              THEN Done("modify", email, id, 400, FALSE)
            ELSE Flag(InFlight("modify", "update", email, id, newStart, newEnd,
                               ModifiedPrice(bookings[id], newStart, newEnd),
                               FALSE),
                      TRUE, Malformed(newStart, newEnd))]
    /\ ops' = ops + 1
    /\ UNCHANGED <<cars, bookings, conn, calls>>

\* Variant of the update of the modify route: a moved booking goes back to
\* "pending".
ModifyBooking_Update_Repend(r) ==
    /\ reqs[r].op = "modify" /\ reqs[r].pc = "update"
    /\ LET q == reqs[r] IN
         /\ bookings' = [bookings EXCEPT ![q.id].startDate = StoreDate(q.s),
                                         ![q.id].endDate = StoreDate(q.e),
                                         ![q.id].totalPrice = q.loc,
                                         ![q.id].bookingStatus = "pending"]
         /\ reqs' = [reqs EXCEPT ![r] = Reply(q, 200, TRUE)]
    /\ UNCHANGED <<cars, ops, conn, calls>>

\* bookings.updateOne({_id}, {$set: {startDate, endDate, totalPrice}})
ModifyBooking_Update(r) ==
    /\ reqs[r].op = "modify" /\ reqs[r].pc = "update"
    /\ LET q == reqs[r] IN
         /\ bookings' = [bookings EXCEPT ![q.id].startDate = StoreDate(q.s),
                                         ![q.id].endDate = StoreDate(q.e),
                                         ![q.id].totalPrice = q.loc]
         /\ reqs' = [reqs EXCEPT ![r] = Reply(q, 200, TRUE)]
    /\ UNCHANGED <<cars, ops, conn, calls>>

\* PUT /api/cars/:id with body {dailyPrice: price}, up to the read of the car
UpdateCar_Begin(r) ==
    /\ CanBegin(r)
    /\ \E email \in Users, id \in CarIdInputs, price \in Prices :
          reqs' = [reqs EXCEPT ![r] =
            IF ~ObjectIdIsValid(id)
              THEN Flag(Done("updateCar", email, id, 400, FALSE), FALSE, TRUE)
            ELSE IF id \notin CarIds
              \* car is null: car.ownerEmail throws, the catch answers 500
              THEN Done("updateCar", email, id, 500, FALSE)
            ELSE IF cars[id].ownerEmail # email
              THEN Done("updateCar", email, id, 403, FALSE)
            ELSE InFlight("updateCar", "update", email, id, 0, 0, price, FALSE)]
    /\ ops' = ops + 1
    /\ UNCHANGED <<cars, bookings, conn, calls>>

\* cars.updateOne({_id}, {$set: req.body})
UpdateCar_Update(r) ==
    /\ reqs[r].op = "updateCar" /\ reqs[r].pc = "update"
    /\ cars' = [cars EXCEPT ![reqs[r].id].dailyPrice = reqs[r].loc]
    /\ reqs' = [reqs EXCEPT ![r] =
                  Reply(reqs[r], 200, TRUE)]
    /\ UNCHANGED <<bookings, ops, conn, calls>>

(* --------------- legacy routes: src/unnamed/part_001 ------------------ *)

\* bookingsCollection.findOne({carId, bookingStatus: {$in: [confirmed,
\* pending]}, $or: [{startDate: {$lt: end}, endDate: {$gt: start}}]}) with
\* carId as stored, and without the booking `self` (0: none left out)
LegacyFindOverlap(carIdValue, start, end, self) ==
    {i \in BookingIds :
        /\ i # self
        /\ bookings[i].carId = carIdValue
        /\ Active(bookings[i])
        /\ bookings[i].startDate < StoreDate(end)
        /\ bookings[i].endDate > StoreDate(start)}

\* Math.round(Math.abs((end - start) / oneDay)) || 1
LegacyCreateDays(start, end) ==
    IF IsNaN(start) \/ IsNaN(end) THEN 1
    ELSE LET n == Round(Abs(end - start), dayMs) IN IF n = 0 THEN 1 ELSE n

\* Math.max(1, Math.round((end - start) / day))
LegacyModifyDays(start, end) ==
    IF IsNaN(start) \/ IsNaN(end) THEN NaN
    ELSE Max(1, Round(end - start, dayMs))

\* POST /bookings up to the read of the car
LegacyCreate_Begin(r, D) ==
    /\ CanBeginCreate(r)
    /\ \E email \in Users, carId \in CarIdInputs, start \in D,
          end \in D :
          reqs' = [reqs EXCEPT ![r] =
            IF ~ObjectIdIsValid(carId)
              THEN Flag(Done("legacyCreate", email, carId, 400, FALSE),
                        FALSE, TRUE)
            ELSE IF Ge(start, end)
              THEN Flag(Done("legacyCreate", email, carId, 400, FALSE),
                        FALSE, FALSE)
            ELSE IF carId \notin CarIds
              THEN Flag(Done("legacyCreate", email, carId, 404, FALSE),
                        TRUE, Malformed(start, end))
            ELSE Flag(InFlight("legacyCreate", "findOverlap", email, carId,
                               start, end, <<cars[carId].dailyPrice>>, FALSE),
                      TRUE, Malformed(start, end))]
    /\ ops' = ops + 1
    /\ UNCHANGED <<cars, bookings, conn, calls>>

LegacyCreate_FindOverlap(r) ==
    /\ reqs[r].op = "legacyCreate" /\ reqs[r].pc = "findOverlap"
    /\ LET q == reqs[r] IN
         reqs' = [reqs EXCEPT ![r] =
           IF LegacyFindOverlap(<<"str", q.id>>, q.s, q.e, 0) # {}
             THEN Reply(q, 409, FALSE)
             ELSE [q EXCEPT !.pc = "insert",
                            !.loc = <<q.loc[1], Len(bookings)>>]]
    /\ UNCHANGED <<cars, bookings, ops, conn, calls>>

\* the booking document built at part_001:215-225
LegacyNewBooking(q) ==
    [carId |-> <<"str", q.id>>,
     ownerEmail |-> q.email,
     startDate |-> StoreDate(q.s),
     endDate |-> StoreDate(q.e),
     totalPrice |-> Times(LegacyCreateDays(q.s, q.e), PriceOf(q.loc[1])),
     bookingStatus |-> "pending",
     rate |-> q.loc[1],
     seen |-> q.loc[2]]

LegacyCreate_Insert(r) ==
    /\ reqs[r].op = "legacyCreate" /\ reqs[r].pc = "insert"
    /\ bookings' = Append(bookings, LegacyNewBooking(reqs[r]))
    /\ reqs' = [reqs EXCEPT ![r].pc = "inc", ![r].wrote = TRUE]
    /\ UNCHANGED <<cars, ops, conn, calls>>

LegacyCreate_IncCount(r) ==
    /\ reqs[r].op = "legacyCreate" /\ reqs[r].pc = "inc"
    /\ cars' = [cars EXCEPT ![reqs[r].id].bookingCount = @ + 1]
    /\ reqs' = [reqs EXCEPT ![r] =
                  Reply(reqs[r], 201, TRUE)]
    /\ UNCHANGED <<bookings, ops, conn, calls>>

\* newDays * dailyRate of part_001:317-323, from the booking as read
LegacyModifiedPrice(existing, start, end) ==
    LET originalDays ==
            Max(1, Round(existing.endDate - existing.startDate, dayMs))
        newDays == LegacyModifyDays(start, end)
        dailyRate == Over(existing.totalPrice, originalDays)
    IN Times(newDays, dailyRate)

\* PUT /bookings/modify/:id up to the read of the booking
LegacyModify_Begin(r, D) ==
    /\ CanBegin(r)
    /\ \E email \in Users, id \in BookingIdInputs, start \in D,
          end \in D :
          reqs' = [reqs EXCEPT ![r] =
            IF ~ObjectIdIsValid(id)
              THEN Flag(Done("legacyModify", email, id, 400, FALSE),
                        FALSE, TRUE)
            ELSE IF Ge(start, end)
              THEN Flag(Done("legacyModify", email, id, 400, FALSE),
                        FALSE, FALSE)
            ELSE IF id \notin BookingIds
              THEN Flag(Done("legacyModify", email, id, 404, FALSE),
                        TRUE, Malformed(start, end))
            ELSE IF email # bookings[id].ownerEmail
              THEN Flag(Done("legacyModify", email, id, 403, FALSE),
                        TRUE, Malformed(start, end))
            ELSE Flag(InFlight("legacyModify", "findConflict", email, id,
                               start, end,
                               <<bookings[id].carId,
                                 LegacyModifiedPrice(bookings[id], start,
                                                     end)>>,
                               FALSE),
                      TRUE, Malformed(start, end))]
    /\ ops' = ops + 1
    /\ UNCHANGED <<cars, bookings, conn, calls>>

LegacyModify_FindConflict(r) ==
    /\ reqs[r].op = "legacyModify" /\ reqs[r].pc = "findConflict"
    /\ LET q == reqs[r] IN
         reqs' = [reqs EXCEPT ![r] =
           IF LegacyFindOverlap(q.loc[1], q.s, q.e, q.id) # {}
             THEN Reply(q, 409, FALSE)
             ELSE [q EXCEPT !.pc = "update"]]
    /\ UNCHANGED <<cars, bookings, ops, conn, calls>>

LegacyModify_Update(r) ==
    /\ reqs[r].op = "legacyModify" /\ reqs[r].pc = "update"
    /\ LET q == reqs[r] IN
         /\ bookings' = [bookings EXCEPT ![q.id].startDate = StoreDate(q.s),
                                         ![q.id].endDate = StoreDate(q.e),
                                         ![q.id].totalPrice = q.loc[2]]
         /\ reqs' = [reqs EXCEPT ![r] =
                       Reply(q, 200, TRUE)]
    /\ UNCHANGED <<cars, ops, conn, calls>>

\* PUT /bookings/cancel/:id up to the read of the booking
LegacyCancel_Begin(r) ==
    /\ CanBegin(r)
    /\ \E email \in Users, id \in BookingIdInputs :
          reqs' = [reqs EXCEPT ![r] =
            IF ~ObjectIdIsValid(id)
              THEN Flag(Done("cancel", email, id, 400, FALSE), FALSE, TRUE)
            ELSE IF id \notin BookingIds
              THEN Done("cancel", email, id, 404, FALSE)
            ELSE IF email # bookings[id].ownerEmail
              THEN Done("cancel", email, id, 403, FALSE)
            ELSE InFlight("cancel", "update", email, id, 0, 0, <<>>, FALSE)]
    /\ ops' = ops + 1
    /\ UNCHANGED <<cars, bookings, conn, calls>>

\* bookingsCollection.updateOne({_id}, {$set: {bookingStatus: "cancelled"}})
LegacyCancel_Update(r) ==
    /\ reqs[r].op = "cancel" /\ reqs[r].pc = "update"
    /\ bookings' = [bookings EXCEPT ![reqs[r].id].bookingStatus = "cancelled"]
    /\ reqs' = [reqs EXCEPT ![r] =
                  Reply(reqs[r], 200, TRUE)]
    /\ UNCHANGED <<cars, ops, conn, calls>>

(* --------------------------- store failures --------------------------- *)

\* The awaited store call of a request in progress rejects: the handler's
\* catch answers 500 and nothing is written by the failed call.
StoreFailure(r) ==
    /\ Awaiting(r)
    /\ reqs' = [reqs EXCEPT ![r] =
                  Reply(reqs[r], 500, reqs[r].wrote)]
    /\ UNCHANGED <<cars, bookings, ops, conn, calls>>

OpKinds ==
    {"create", "confirm", "modify", "updateCar", "legacyCreate",
     "legacyModify", "cancel"}

\* connectDB or the first store read of a request rejects.  The legacy
\* handlers check the id before they reach the store.
FirstCall_StoreFailure(r) ==
    /\ CanBegin(r)
    /\ \E op \in OpKinds, email \in Users, id \in 0..3 :
          /\ op \in {"legacyCreate", "legacyModify", "cancel"}
                => ObjectIdIsValid(id)
          /\ reqs' = [reqs EXCEPT ![r] = Flag(Done(op, email, id, 500, FALSE),
                                              TRUE, ~ObjectIdIsValid(id))]
    /\ ops' = ops + 1
    /\ UNCHANGED <<cars, bookings, conn, calls>>

(* ------------ store failures: src/unnamed/part_000 -------------------- *)

\* The handlers of part_000 await the store outside any try/catch, so a
\* rejected store call rejects the handler's promise.  Express 5 hands the
\* rejection to its error handler, which answers 500 as StoreFailure does;
\* Express 4 drops the promise and nothing answers the request.  No file of
\* the repository fixes the version, so both outcomes occur; these two
\* actions are the second one.
UncaughtOps == {"create", "confirm", "modify"}

Uncaught_StoreFailure(r) ==
    /\ Awaiting(r)
    /\ reqs[r].op \in UncaughtOps
    /\ reqs' = [reqs EXCEPT ![r].pc = "lost"]
    /\ UNCHANGED <<cars, bookings, ops, conn, calls>>

\* connectDB or the first store read rejects; connectDB comes before the
\* check of the id.
FirstCall_Uncaught(r) ==
    /\ CanBegin(r)
    /\ \E op \in UncaughtOps, email \in Users, id \in 0..3 :
          reqs' = [reqs EXCEPT ![r] =
            Flag(InFlight(op, "lost", email, id, 0, 0, <<>>, FALSE),
                 TRUE, ~ObjectIdIsValid(id))]
    /\ ops' = ops + 1
    /\ UNCHANGED <<cars, bookings, conn, calls>>

\* The availability query without the bookingStatus filter.
CheckAvailability_AnyStatus(id, from, to) ==
    {i \in BookingIds :
        /\ bookings[i].carId = <<"oid", id>>
        /\ bookings[i].startDate <= StoreDate(to)
        /\ bookings[i].endDate >= StoreDate(from)} = {}

\* GET /api/cars/:id/availability: {available: !overlap}
CheckAvailability(id, from, to) ==
    {i \in BookingIds :
        /\ bookings[i].carId = <<"oid", id>>
        /\ Active(bookings[i])
        /\ bookings[i].startDate <= StoreDate(to)
        /\ bookings[i].endDate >= StoreDate(from)} = {}

(* ---------------------- read routes: src/index.js -------------------- *)

\* The answer of a read route: its inputs are kept with it, body is what
\* res.send sends.
Answer(op, id, s, e, resp, body) ==
    [Done(op, "", id, resp, FALSE) EXCEPT !.s = s, !.e = e, !.loc = body]

\* GET /api/cars/:id/availability?from=&to=
GetAvailability(r, D) ==
    /\ CanBegin(r)
    /\ \E id \in CarIdInputs, from \in D, to \in D :
          reqs' = [reqs EXCEPT ![r] =
            IF ~ObjectIdIsValid(id)
              THEN Flag(Answer("availability", id, from, to, 400, <<>>),
                        FALSE, TRUE)
              ELSE Flag(Answer("availability", id, from, to, 200,
                               <<CheckAvailability(id, from, to)>>),
                        TRUE, Malformed(from, to))]
    /\ ops' = ops + 1
    /\ UNCHANGED <<cars, bookings, conn, calls>>

\* pickup query parameter: a branch code, or none
Pickups == {"", "DAC", "CTG", "SYL"}

\* Variant of the distinct query of the search: only confirmed bookings
\* count.
OverlappedCarIds_ConfirmedOnly(start, end) ==
    {bookings[i].carId : i \in
        {j \in BookingIds : /\ bookings[j].bookingStatus = "confirmed"
                            /\ bookings[j].startDate <= end
                            /\ bookings[j].endDate >= start}}

\* bookings.distinct("carId", {bookingStatus: {$in: [pending, confirmed]},
\* startDate: {$lte: end}, endDate: {$gte: start}})
OverlappedCarIds(start, end) ==
    {bookings[i].carId : i \in
        {j \in BookingIds : /\ Active(bookings[j])
                            /\ bookings[j].startDate <= end
                            /\ bookings[j].endDate >= start}}

\* GET /api/search up to the distinct query
Search_Begin(r, D) ==
    /\ CanBegin(r)
    /\ \E pickup \in Pickups, from \in D, to \in D :
          reqs' = [reqs EXCEPT ![r] =
            IF IsNaN(from) \/ IsNaN(to)
              THEN Flag(Answer("search", 0, from, to, 400, <<>>), FALSE, TRUE)
            ELSE IF to <= from
              THEN Flag(Answer("search", 0, from, to, 400, <<>>),
                        FALSE, FALSE)
            ELSE InFlight("search", "findCars", "", 0, from, to,
                          <<pickup, OverlappedCarIds(from, to)>>, FALSE)]
    /\ ops' = ops + 1
    /\ UNCHANGED <<cars, bookings, conn, calls>>

\* cars.find({branch: pickup, _id: {$nin: overlappedCarIds}}) and the answer;
\* the _id of a car is an ObjectId
Search_FindCars(r) ==
    /\ reqs[r].op = "search" /\ reqs[r].pc = "findCars"
    /\ LET q == reqs[r]
           items == {c \in CarIds :
                       /\ q.loc[1] # "" => cars[c].branch = q.loc[1]
                       /\ <<"oid", c>> \notin q.loc[2]}
       IN reqs' = [reqs EXCEPT ![r] =
                     Answer("search", 0, q.s, q.e, 200, <<q.loc[1], items>>)]
    /\ UNCHANGED <<cars, bookings, ops, conn, calls>>

\* A query parameter that is not given
Absent == 0 - 2

\* new Date("2999-12-31"), after every date of a request
FarFuture == 3 * dayMs

RECURSIVE SortByStart(_)
\* .sort({startDate: 1}) of a set of booking ids, as the sequence of their
\* {startDate, endDate}; equal start dates keep the order of insertion
SortByStart(ids) ==
    IF ids = {} THEN <<>>
    ELSE LET i == CHOOSE k \in ids :
                    \A m \in ids :
                        \/ bookings[k].startDate < bookings[m].startDate
                        \/ /\ bookings[k].startDate = bookings[m].startDate
                           /\ k <= m
         IN <<<<bookings[i].startDate, bookings[i].endDate>>>>
              \o SortByStart(ids \ {i})

\* GET /api/bookings/car/:carId?from=&to=
ListBookedRanges(r, D) ==
    /\ CanBegin(r)
    /\ \E carId \in CarIdInputs, from \in D \cup {Absent},
          to \in D \cup {Absent} :
          reqs' = [reqs EXCEPT ![r] =
            IF ~ObjectIdIsValid(carId)
              THEN Flag(Answer("ranges", carId, from, to, 400, <<>>),
                        FALSE, TRUE)
              ELSE
                LET windowed == from # Absent \/ to # Absent
                    fromD == IF from = Absent THEN 0 ELSE StoreDate(from)
                    toD == IF to = Absent THEN FarFuture ELSE StoreDate(to)
                    found == {i \in BookingIds :
                                /\ bookings[i].carId = <<"oid", carId>>
                                /\ Active(bookings[i])
                                /\ windowed =>
                                     /\ bookings[i].startDate <= toD
                                     /\ bookings[i].endDate >= fromD}
                IN Flag(Answer("ranges", carId, from, to, 200,
                               SortByStart(found)),
                        TRUE, IsNaN(from) \/ IsNaN(to))]
    /\ ops' = ops + 1
    /\ UNCHANGED <<cars, bookings, conn, calls>>

(* -------------------- connectDB: src/index.js ------------------------- *)

\* At most this many calls of connectDB are ever made.
MaxCalls == 4

\* The value of a module variable that holds nothing
Undefined == 0

\* The module state at load.  client is Undefined or the number of the
\* MongoClient object it holds, and a collection handle is Undefined or the
\* number of the client it was taken from; topology is the set of client
\* objects whose connection is established.  made counts the clients
\* constructed and entered the calls of connectDB; neither is data of the
\* program.
Unconnected ==
    [client |-> Undefined, topology |-> {}, cars |-> Undefined,
     bookings |-> Undefined, feedbacks |-> Undefined,
     indexesEnsured |-> FALSE, initialized |-> FALSE, made |-> 0,
     entered |-> 0]

\* A caller of connectDB: pc is where it stands ("out" when it is not in a
\* request), on the client object whose connect() it awaits, res how its
\* last request went on.
Call(pc, on, res) == [pc |-> pc, on |-> on, res |-> res]

Outside == Call("out", Undefined, "none")

\* catch (err): everything is reset but feedbacks and indexesEnsured
Caught(c) ==
    [c EXCEPT !.initialized = FALSE, !.cars = Undefined,
              !.bookings = Undefined, !.client = Undefined]

\* From client.db("carDB") to the next await or to the return: the module
\* state and the caller that result.  client.db of an Undefined client
\* throws a TypeError inside the try.
Proceed(c) ==
    IF c.client = Undefined
      THEN <<Caught(c), Call("out", Undefined, "threw")>>
    ELSE LET h == [c EXCEPT !.cars = c.client, !.bookings = c.client,
                            !.feedbacks = c.client]
         IN IF ~h.indexesEnsured
              THEN <<h, Call("idx1", Undefined, "none")>>
              ELSE <<[h EXCEPT !.initialized = TRUE],
                     Call("ready", Undefined, "none")>>

\* A request calls connectDB, up to its first await or its return
ConnectDB_Enter(r) ==
    /\ calls[r].pc = "out"
    /\ conn.entered < MaxCalls
    /\ LET c0 == [conn EXCEPT !.entered = @ + 1]
           c1 == IF c0.client = Undefined
                   THEN [c0 EXCEPT !.client = c0.made + 1, !.made = @ + 1]
                   ELSE c0
           p == Proceed(c1)
       IN IF c0.initialized /\ c0.client # Undefined
            THEN /\ conn' = c0
                 /\ calls' = [calls EXCEPT ![r] =
                                Call("ready", Undefined, "none")]
          ELSE IF c1.client \notin c1.topology
            THEN /\ conn' = c1
                 /\ calls' = [calls EXCEPT ![r] =
                                Call("connect", c1.client, "none")]
          ELSE /\ conn' = p[1]
               /\ calls' = [calls EXCEPT ![r] = p[2]]
    /\ UNCHANGED storeVars

\* await client.connect() resolves
ConnectDB_Connected(r) ==
    /\ calls[r].pc = "connect"
    /\ LET p == Proceed([conn EXCEPT !.topology = @ \cup {calls[r].on}])
       IN /\ conn' = p[1]
          /\ calls' = [calls EXCEPT ![r] = p[2]]
    /\ UNCHANGED storeVars

\* An awaited createIndex resolves.  After the first comes
\* bookings.createIndex, after the second feedbacks.createIndex, each a
\* TypeError when the handle is Undefined; after the third the two flags
\* are set and connectDB returns.
ConnectDB_IndexCreated(r) ==
    /\ calls[r].pc \in {"idx1", "idx2", "idx3"}
    /\ LET next == IF calls[r].pc = "idx1" THEN "idx2" ELSE "idx3"
           handle == IF calls[r].pc = "idx1" THEN conn.bookings
                     ELSE conn.feedbacks
       IN IF calls[r].pc = "idx3"
            THEN /\ conn' = [conn EXCEPT !.indexesEnsured = TRUE,
                                         !.initialized = TRUE]
                 /\ calls' = [calls EXCEPT ![r] =
                                Call("ready", Undefined, "none")]
          ELSE IF handle = Undefined
            THEN /\ conn' = Caught(conn)
                 /\ calls' = [calls EXCEPT ![r] =
                                Call("out", Undefined, "threw")]
          ELSE /\ conn' = conn
               /\ calls' = [calls EXCEPT ![r] =
                              Call(next, Undefined, "none")]
    /\ UNCHANGED storeVars

\* The awaited connect or createIndex rejects: the catch resets the module
\* and connectDB throws to the request.
ConnectDB_Rejected(r) ==
    /\ calls[r].pc \in {"connect", "idx1", "idx2", "idx3"}
    /\ conn' = Caught(conn)
    /\ calls' = [calls EXCEPT ![r] = Call("out", Undefined, "threw")]
    /\ UNCHANGED storeVars

\* The handler, resumed after await connectDB(), calls a method of cars or
\* bookings: a TypeError when the handle is Undefined.
Handler_Use(r) ==
    /\ calls[r].pc = "ready"
    /\ calls' = [calls EXCEPT ![r] =
         Call("out", Undefined,
              IF conn.cars = Undefined \/ conn.bookings = Undefined
                THEN "TypeError" ELSE "ok")]
    /\ UNCHANGED <<conn, storeVars>>

(* ----------------- connectDB: src/unnamed/part_000 -------------------- *)

\* A request calls connectDB of part_000: it returns at once when client
\* holds anything.
Part000_ConnectDB_Enter(r) ==
    /\ calls[r].pc = "out"
    /\ conn.entered < MaxCalls
    /\ LET c0 == [conn EXCEPT !.entered = @ + 1]
       IN IF c0.client # Undefined
            THEN /\ conn' = c0
                 /\ calls' = [calls EXCEPT ![r] =
                                Call("ready", Undefined, "none")]
          ELSE /\ conn' = [c0 EXCEPT !.client = c0.made + 1, !.made = @ + 1]
               /\ calls' = [calls EXCEPT ![r] =
                              Call("connect", c0.made + 1, "none")]
    /\ UNCHANGED storeVars

\* await client.connect() resolves; the handles are taken
Part000_ConnectDB_Connected(r) ==
    /\ calls[r].pc = "connect"
    /\ conn' = [conn EXCEPT !.topology = @ \cup {calls[r].on},
                            !.cars = conn.client, !.bookings = conn.client]
    /\ calls' = [calls EXCEPT ![r] =
         Call(IF conn.indexesEnsured THEN "ready" ELSE "idx1",
              Undefined, "none")]
    /\ UNCHANGED storeVars

\* An awaited createIndex resolves; after the second the flag is set and
\* connectDB returns.
Part000_ConnectDB_IndexCreated(r) ==
    /\ calls[r].pc \in {"idx1", "idx2"}
    /\ IF calls[r].pc = "idx1"
         THEN /\ conn' = conn
              /\ calls' = [calls EXCEPT ![r] =
                             Call("idx2", Undefined, "none")]
       ELSE /\ conn' = [conn EXCEPT !.indexesEnsured = TRUE]
            /\ calls' = [calls EXCEPT ![r] =
                           Call("ready", Undefined, "none")]
    /\ UNCHANGED storeVars

\* The awaited connect or createIndex rejects: connectDB throws to the
\* request and the module state stays as it is.
Part000_ConnectDB_Rejected(r) ==
    /\ calls[r].pc \in {"connect", "idx1", "idx2"}
    /\ calls' = [calls EXCEPT ![r] = Call("out", Undefined, "threw")]
    /\ UNCHANGED <<conn, storeVars>>

(* --------------------------- specification ---------------------------- *)

Init ==
    /\ cars = [c \in CarIds |->
                 [ownerEmail |-> IF c = 1 THEN "ann" ELSE "bob",
                  dailyPrice |-> 50,
                  branch |-> IF c = 1 THEN "DAC" ELSE "CTG",
                  bookingCount |-> 0]]
    /\ bookings = <<>>
    /\ reqs = [r \in Slots |-> Idle]
    /\ ops = 0
    /\ conn = Unconnected
    /\ calls = [r \in Slots |-> Outside]

\* A step of the request in slot r, its dates drawn from D.
Step(r, D) ==
    \/ CreateBooking_Begin(r, D)
    \/ CreateBooking_FindOverlap(r)
    \/ CreateBooking_Insert(r)
    \/ CreateBooking_IncCount(r)
    \/ ConfirmBooking_Begin(r)
    \/ ConfirmBooking_Update(r)
    \/ ModifyBooking_Begin(r, D)
    \/ ModifyBooking_Update(r)
    \/ UpdateCar_Begin(r)
    \/ UpdateCar_Update(r)
    \/ LegacyCreate_Begin(r, D)
    \/ LegacyCreate_FindOverlap(r)
    \/ LegacyCreate_Insert(r)
    \/ LegacyCreate_IncCount(r)
    \/ LegacyModify_Begin(r, D)
    \/ LegacyModify_FindConflict(r)
    \/ LegacyModify_Update(r)
    \/ LegacyCancel_Begin(r)
    \/ LegacyCancel_Update(r)
    \/ StoreFailure(r)
    \/ FirstCall_StoreFailure(r)

\* A step of a read request in slot r, its dates drawn from D.
QueryStep(r, D) ==
    \/ GetAvailability(r, D)
    \/ Search_Begin(r, D)
    \/ Search_FindCars(r)
    \/ ListBookedRanges(r, D)

\* Requests of any kind, interleaved at their store operations.
Next == \E r \in Slots : Step(r, DateInputs) \/ QueryStep(r, DateInputs)

Spec == Init /\ [][Next]_vars

\* Each request runs to completion before the next one starts.
SeqNext == Step(1, DateInputs)

SpecSeq == Init /\ [][SeqNext]_vars

\* The same, with every date of a request a valid instant.
SeqValidNext == Step(1, Dates)

SpecSeqValid == Init /\ [][SeqValidNext]_vars

\* Concurrent POST /api/bookings requests only.
RaceNext ==
    \E r \in Slots :
        \/ CreateBooking_Begin(r, DateInputs)
        \/ CreateBooking_FindOverlap(r)
        \/ CreateBooking_Insert(r)
        \/ CreateBooking_IncCount(r)

SpecRace == Init /\ [][RaceNext]_vars

\* Read requests between creates, confirms and cancels, one request at a
\* time; the stored dates are valid instants, the dates of a query any.
QueryNext ==
    \/ CreateBooking_Begin(1, Dates)
    \/ CreateBooking_FindOverlap(1)
    \/ CreateBooking_Insert(1)
    \/ CreateBooking_IncCount(1)
    \/ LegacyCreate_Begin(1, Dates)
    \/ LegacyCreate_FindOverlap(1)
    \/ LegacyCreate_Insert(1)
    \/ LegacyCreate_IncCount(1)
    \/ ConfirmBooking_Begin(1)
    \/ ConfirmBooking_Update(1)
    \/ LegacyCancel_Begin(1)
    \/ LegacyCancel_Update(1)
    \/ QueryStep(1, DateInputs)

SpecQuery == Init /\ [][QueryNext]_vars

\* Creates, confirms, modifies and cancels of concurrent callers, with no
\* store failure and no change to a car.
CountStep(r, D) ==
    \/ CreateBooking_Begin(r, D)
    \/ CreateBooking_FindOverlap(r)
    \/ CreateBooking_Insert(r)
    \/ CreateBooking_IncCount(r)
    \/ ConfirmBooking_Begin(r)
    \/ ConfirmBooking_Update(r)
    \/ ModifyBooking_Begin(r, D)
    \/ ModifyBooking_Update(r)
    \/ LegacyCreate_Begin(r, D)
    \/ LegacyCreate_FindOverlap(r)
    \/ LegacyCreate_Insert(r)
    \/ LegacyCreate_IncCount(r)
    \/ LegacyCancel_Begin(r)
    \/ LegacyCancel_Update(r)

CountNext == \E r \in Slots : CountStep(r, Dates)

SpecCount == Init /\ [][CountNext]_vars

\* The step that follows a store call that settled without error
Continue(r) ==
    \/ CreateBooking_FindOverlap(r)
    \/ CreateBooking_Insert(r)
    \/ CreateBooking_IncCount(r)
    \/ ConfirmBooking_Update(r)
    \/ ModifyBooking_Update(r)
    \/ LegacyCancel_Update(r)

\* Creates, confirms, modifies and cancels, one request at a time, with
\* store failures, caught and uncaught.
LiveNext ==
    \/ CreateBooking_Begin(1, Dates)
    \/ ConfirmBooking_Begin(1)
    \/ ModifyBooking_Begin(1, Dates)
    \/ LegacyCancel_Begin(1)
    \/ Continue(1)
    \/ StoreFailure(1)
    \/ FirstCall_StoreFailure(1)
    \/ Uncaught_StoreFailure(1)
    \/ FirstCall_Uncaught(1)

\* An awaited store call settles, and the handler then takes its next step.
SpecLive == Init /\ [][LiveNext]_vars /\ WF_vars(Continue(1))

\* Concurrent callers of connectDB of src/index.js, each await able to fail
ConnNext ==
    \E r \in Slots :
        \/ ConnectDB_Enter(r)
        \/ ConnectDB_Connected(r)
        \/ ConnectDB_IndexCreated(r)
        \/ ConnectDB_Rejected(r)
        \/ Handler_Use(r)

SpecConn == Init /\ [][ConnNext]_vars

\* The same for connectDB of src/unnamed/part_000
Part000_ConnNext ==
    \E r \in Slots :
        \/ Part000_ConnectDB_Enter(r)
        \/ Part000_ConnectDB_Connected(r)
        \/ Part000_ConnectDB_IndexCreated(r)
        \/ Part000_ConnectDB_Rejected(r)
        \/ Handler_Use(r)

Part000_SpecConn == Init /\ [][Part000_ConnNext]_vars

(* ------------------------------- claims ------------------------------- *)

\* The car a booking refers to, whichever way the reference is stored.
CarOf(b) == b.carId[2]

\* The overlap test of the data model: closed intervals, touching counts.
InclusiveOverlap(s1, e1, s2, e2) == s1 <= e2 /\ e1 >= s2

\* days = max(1, ceil((end - start) / 1 day)) of the data model
ClaimDays(start, end) == Max(1, Ceil(end - start, dayMs))

\* Some pending or confirmed booking of car c, other than booking `self`,
\* overlaps [s, e].
ActiveOverlap(c, s, e, self) ==
    \E i \in BookingIds :
        /\ i # self
        /\ CarOf(bookings[i]) = c
        /\ Active(bookings[i])
        /\ InclusiveOverlap(bookings[i].startDate, bookings[i].endDate, s, e)

ValidRange(s, e) == ~IsNaN(s) /\ ~IsNaN(e) /\ s <= e

\* The request of slot r takes this step.
Acts(r) == reqs'[r] # reqs[r]

\* The request of slot r is answered in this step.
Finishes(r) == Busy(r) /\ reqs'[r].pc = "done"

\* C1: with each request run to completion before the next starts, any two
\* distinct pending or confirmed bookings of the same car have ranges that do
\* not overlap under the inclusive test.
C1_NoActiveOverlap ==
    \A i, j \in BookingIds :
        (/\ i # j
         /\ CarOf(bookings[i]) = CarOf(bookings[j])
         /\ Active(bookings[i])
         /\ Active(bookings[j]))
        => ~InclusiveOverlap(bookings[i].startDate, bookings[i].endDate,
                             bookings[j].startDate, bookings[j].endDate)

\* Two pending or confirmed bookings of one car overlap.
DoubleBooked(i, j) ==
    /\ i < j
    /\ bookings[i].carId = bookings[j].carId
    /\ Active(bookings[i])
    /\ Active(bookings[j])
    /\ InclusiveOverlap(bookings[i].startDate, bookings[i].endDate,
                        bookings[j].startDate, bookings[j].endDate)

\* C2: among concurrent POST /api/bookings requests, two overlapping active
\* bookings of one car exist only when the later one's overlap query ran
\* before the earlier one was inserted (the query and the insert are two
\* steps); the witness is such a double booking.
C2_DoubleBookingOnlyByRace ==
    \A i, j \in BookingIds : DoubleBooked(i, j) => bookings[j].seen < i

C2_DoubleBookingReached ==
    \E i, j \in BookingIds : DoubleBooked(i, j) /\ bookings[j].seen < i

\* C3: in either creation route, a create with valid input is answered 409
\* exactly when some pending or confirmed booking of the car has
\* start <= e and end >= s.
C3_ConflictIffOverlap ==
    [][\A r \in Slots :
         (/\ reqs[r].pc = "findOverlap"
          /\ Acts(r)
          /\ reqs'[r].resp # 500
          /\ ValidRange(reqs[r].s, reqs[r].e))
         => (reqs'[r].resp = 409
               <=> ActiveOverlap(reqs[r].id, reqs[r].s, reqs[r].e, 0))]_vars

\* C4: a modify to a valid new range that another pending or confirmed
\* booking of the same car overlaps (inclusive test) does not change the
\* booking.
C4_ModifyConflictKeepsBooking ==
    [][\A r \in Slots :
         (/\ reqs[r].op \in {"modify", "legacyModify"}
          /\ reqs[r].pc = "update"
          /\ ValidRange(reqs[r].s, reqs[r].e)
          /\ ActiveOverlap(CarOf(bookings[reqs[r].id]), reqs[r].s, reqs[r].e,
                           reqs[r].id))
         => bookings' = bookings]_vars

\* C5: every create that inserts a booking for a valid range start <= end
\* stores totalPrice = max(1, ceil((end - start) / day)) * the daily price it
\* read from the car.
C5_CreatePrice ==
    [][\A r \in Slots :
         (/\ reqs[r].pc = "insert"
          /\ reqs'[r].pc = "inc"
          /\ ValidRange(reqs[r].s, reqs[r].e))
         => bookings'[Len(bookings')].totalPrice
              = Times(ClaimDays(reqs[r].s, reqs[r].e),
                      PriceOf(reqs[r].loc[1]))]_vars

\* totalPrice = max(1, ceil((end - start) / day)) * the rate of creation
RateKept(b) ==
    b.totalPrice = Times(ClaimDays(b.startDate, b.endDate), PriceOf(b.rate))

\* C6: a successful modify to a valid range keeps totalPrice = days * the
\* daily rate the booking was created with.
C6_ModifyKeepsRate ==
    [][\A r \in Slots :
         (/\ reqs[r].op \in {"modify", "legacyModify"}
          /\ reqs[r].pc = "update"
          /\ reqs'[r].resp = 200
          /\ ValidRange(reqs[r].s, reqs[r].e)
          /\ RateKept(bookings[reqs[r].id]))
         => RateKept(bookings'[reqs[r].id])]_vars

\* A cancel of booking reqs[r].id has just been answered 200.
Cancelled(r) ==
    /\ reqs[r].pc = "done"
    /\ reqs[r].op = "cancel"
    /\ reqs[r].resp = 200

\* C7: after a successful cancel of b, if no other pending or confirmed
\* booking of b's car overlaps [b.start, b.end], the availability check of
\* that car and range answers true and neither create route finds a conflict
\* for it.
C7_CancelReleasesRange ==
    \A r \in Slots :
        Cancelled(r) =>
          LET b == bookings[reqs[r].id] IN
            ~ActiveOverlap(CarOf(b), b.startDate, b.endDate, reqs[r].id)
            => /\ CheckAvailability(CarOf(b), b.startDate, b.endDate)
               /\ FindOverlap(CarOf(b), b.startDate, b.endDate) = {}
               /\ LegacyFindOverlap(<<"str", CarOf(b)>>, b.startDate,
                                    b.endDate, 0) = {}

C7_CancelledAndFree ==
    \E r \in Slots :
        /\ Cancelled(r)
        /\ bookings[reqs[r].id].bookingStatus = "cancelled"
        /\ Len(bookings) = 2
        /\ LET b == bookings[reqs[r].id] IN
             /\ ~ActiveOverlap(CarOf(b), b.startDate, b.endDate, reqs[r].id)
             /\ CheckAvailability(CarOf(b), b.startDate, b.endDate)

\* C8: a cancelled booking stays cancelled.
C8_CancelledStays ==
    [][\A i \in BookingIds :
         bookings[i].bookingStatus = "cancelled"
         => bookings'[i].bookingStatus = "cancelled"]_vars

\* A confirm, modify or cancel arrives for a stored booking from a user who
\* is not its owner, and its store read does not fail.
NonOwnerCall(r) ==
    /\ ~Busy(r)
    /\ Acts(r)
    /\ reqs'[r].op \in {"confirm", "modify", "legacyModify", "cancel"}
    /\ reqs'[r].id \in BookingIds
    /\ bookings[reqs'[r].id].ownerEmail # reqs'[r].email
    /\ reqs'[r].resp # 500

IsError(code) == code >= 400

ClaimOps ==
    {"create", "legacyCreate", "confirm", "modify", "legacyModify", "cancel"}

\* C10: a step that changes a booking or a car marks its request as having
\* written; the step that answers a create, confirm, modify or cancel with an
\* error changes no booking and no car, and the request has written nothing
\* before, unless it is a create that failed at its counter increment.
C10_ErrorsLeaveStore ==
    [][\A r \in Slots :
         Acts(r) =>
           /\ (bookings' # bookings \/ cars' # cars) => reqs'[r].wrote
           /\ (Busy(r) /\ reqs[r].wrote) => reqs'[r].wrote
           /\ (reqs'[r].pc = "done" /\ reqs'[r].op \in ClaimOps
                 /\ IsError(reqs'[r].resp))
              => /\ bookings' = bookings
                 /\ cars' = cars
                 /\ reqs'[r].wrote
                      => /\ reqs[r].op \in {"create", "legacyCreate"}
                         /\ reqs[r].pc = "inc"]_vars

C10_ConflictAnswered ==
    \E r \in Slots :
        /\ reqs[r].pc = "done"
        /\ reqs[r].op \in ClaimOps
        /\ reqs[r].resp = 409
        /\ ~reqs[r].wrote
        /\ Len(bookings) = 1

\* The request of slot r arrives in this step.
Arrives(r) == ~Busy(r) /\ Acts(r)

ValidatedOps == {"create", "modify", "confirm", "legacyCreate", "legacyModify"}

\* C11: a create, modify or confirm whose id or one of whose dates is
\* malformed is answered 400 before its handler has called the store (a
\* failure of the connection aside).
C11_ValidationBeforeStore ==
    [][\A r \in Slots :
         (/\ Arrives(r)
          /\ reqs'[r].op \in ValidatedOps
          /\ reqs'[r].bad
          /\ reqs'[r].resp # 500)
         => /\ reqs'[r].pc = "done"
            /\ reqs'[r].resp = 400
            /\ ~reqs'[r].touched]_vars

OwnedOps == {"confirm", "modify", "legacyModify", "cancel"}

\* C12: a confirm, modify or cancel for a well-formed id of no stored booking
\* is answered 404, never with the 403 that a requester who is not the owner
\* gets.
C12_AbsentIsNotFound ==
    [][\A r \in Slots :
         (/\ Arrives(r)
          /\ reqs'[r].op \in OwnedOps
          /\ ObjectIdIsValid(reqs'[r].id)
          /\ reqs'[r].id \notin BookingIds
          /\ reqs'[r].resp \notin {400, 500})
         => /\ reqs'[r].pc = "done"
            /\ reqs'[r].resp = 404]_vars

\* C13: a modify is accepted (answered 200, the booking rewritten) only when
\* both new dates are valid and newEnd >= newStart.
C13_ModifyValidatesRange ==
    [][\A r \in Slots :
         (/\ reqs[r].op \in {"modify", "legacyModify"}
          /\ reqs[r].pc = "update"
          /\ Acts(r)
          /\ \/ reqs'[r].resp = 200
             \/ bookings' # bookings)
         => ValidRange(reqs[r].s, reqs[r].e)]_vars

\* Everything of booking b but its status
Terms(b) == <<b.carId, b.ownerEmail, b.startDate, b.endDate, b.totalPrice>>

\* C14: no step of a confirm changes the car, owner, dates or price of any
\* booking; the owner's confirm of a booking that is already confirmed is let
\* through to the update, which answers 200 and leaves the bookings as they
\* were.
C14_ConfirmIdempotent ==
    [][\A r \in Slots :
         (reqs'[r].op = "confirm" /\ Acts(r)) =>
           /\ Len(bookings') = Len(bookings)
           /\ \A i \in BookingIds : Terms(bookings'[i]) = Terms(bookings[i])
           /\ (/\ Arrives(r)
               /\ reqs'[r].id \in BookingIds
               /\ bookings[reqs'[r].id].ownerEmail = reqs'[r].email
               /\ bookings[reqs'[r].id].bookingStatus = "confirmed"
               /\ reqs'[r].resp # 500)
              => reqs'[r].pc = "update"
           /\ (/\ reqs[r].pc = "update"
               /\ bookings[reqs[r].id].bookingStatus = "confirmed"
               /\ reqs'[r].resp # 500)
              => /\ reqs'[r].resp = 200
                 /\ bookings' = bookings]_vars

\* A confirm of an already confirmed booking has been answered 200.
C14_Reconfirmed ==
    \E r \in Slots :
        /\ reqs[r].pc = "done"
        /\ reqs[r].op = "confirm"
        /\ reqs[r].resp = 200
        /\ reqs[r].loc = <<0>>
        /\ bookings[reqs[r].id].bookingStatus = "confirmed"

\* The cars a search for [from, to] at branch pickup should return: those of
\* the branch with no pending or confirmed booking overlapping the window.
FreeCars(pickup, from, to) ==
    {c \in CarIds :
        /\ pickup # "" => cars[c].branch = pickup
        /\ ~ActiveOverlap(c, from, to, 0)}

\* C15: a search with from < to answers exactly the cars of the branch that
\* have no pending or confirmed booking with start <= to and end >= from.
C15_SearchExact ==
    [][\A r \in Slots :
         (/\ reqs[r].op = "search"
          /\ reqs[r].pc = "findCars"
          /\ Acts(r)
          /\ reqs'[r].resp = 200)
         => reqs'[r].loc[2] = FreeCars(reqs[r].loc[1], reqs[r].s, reqs[r].e)]_vars

\* C16: the availability check answers available = true or false only for
\* an existing car and two valid dates with start <= end.
C16_AvailabilityValidates ==
    [][\A r \in Slots :
         (/\ Arrives(r)
          /\ reqs'[r].op = "availability"
          /\ reqs'[r].resp = 200)
         => /\ reqs'[r].id \in CarIds
            /\ ValidRange(reqs'[r].s, reqs'[r].e)]_vars

\* The pending or confirmed bookings of car c that meet the window [from, to],
\* or all of them when no window is given.
BookedIn(c, from, to) ==
    {i \in BookingIds :
        /\ CarOf(bookings[i]) = c
        /\ Active(bookings[i])
        /\ (from # Absent /\ to # Absent) =>
             InclusiveOverlap(bookings[i].startDate, bookings[i].endDate,
                              from, to)}

RangeOf(i) == <<bookings[i].startDate, bookings[i].endDate>>

\* The sequence ranges lists exactly the ranges of the bookings ids, each as
\* often as it occurs, in ascending order of start.
ListsExactly(ranges, ids) ==
    /\ Len(ranges) = Cardinality(ids)
    /\ \A i \in ids :
         Cardinality({k \in DOMAIN ranges : ranges[k] = RangeOf(i)})
           = Cardinality({j \in ids : RangeOf(j) = RangeOf(i)})
    /\ \A k \in 1..(Len(ranges) - 1) : ranges[k][1] <= ranges[k + 1][1]

\* A window of two valid dates, or no window at all
WindowGivenOrNot(from, to) ==
    \/ from = Absent /\ to = Absent
    \/ from \in Dates /\ to \in Dates

\* C17: the booked ranges of a car, with a window of two valid dates or with
\* none, are exactly the ranges of the car's pending or confirmed bookings
\* that meet the window, in ascending order of start.
C17_RangesExact ==
    [][\A r \in Slots :
         (/\ Arrives(r)
          /\ reqs'[r].op = "ranges"
          /\ reqs'[r].resp = 200
          /\ WindowGivenOrNot(reqs'[r].s, reqs'[r].e))
         => ListsExactly(reqs'[r].loc,
                         BookedIn(reqs'[r].id, reqs'[r].s, reqs'[r].e))]_vars

Statuses == {"pending", "confirmed", "cancelled"}

ModifyOps == {"modify", "legacyModify"}

\* C18: a booking is pending when it is inserted, every booking's status is
\* pending, confirmed or cancelled, and no step of a modify request changes
\* the status, the owner or the car reference of a booking.
C18_StatusDiscipline ==
    [][/\ \A i \in (1..Len(bookings')) \ BookingIds :
            bookings'[i].bookingStatus = "pending"
       /\ \A i \in 1..Len(bookings') :
            bookings'[i].bookingStatus \in Statuses
       /\ \A r \in Slots :
            (Acts(r) /\ reqs'[r].op \in ModifyOps)
            => /\ Len(bookings') = Len(bookings)
               /\ \A i \in BookingIds :
                    /\ bookings'[i].bookingStatus = bookings[i].bookingStatus
                    /\ bookings'[i].ownerEmail = bookings[i].ownerEmail
                    /\ bookings'[i].carId = bookings[i].carId]_vars

\* A confirmed booking has been moved by its owner and is still confirmed.
C18_ConfirmedMoved ==
    \E r \in Slots :
        /\ reqs[r].op = "modify" /\ reqs[r].pc = "done"
        /\ reqs[r].resp = 200 /\ reqs[r].wrote
        /\ bookings[reqs[r].id].bookingStatus = "confirmed"

CreateOps == {"create", "legacyCreate"}

\* The bookings ever inserted for car c
Inserted(c) == Cardinality({i \in BookingIds : CarOf(bookings[i]) = c})

\* The creates for car c that have inserted and not yet incremented
Incrementing(c) ==
    Cardinality({r \in Slots : /\ reqs[r].op \in CreateOps
                               /\ reqs[r].pc = "inc"
                               /\ reqs[r].id = c})

CounterExact ==
    \A c \in CarIds : cars[c].bookingCount = Inserted(c) - Incrementing(c)

\* C19: with no store failure and no change to a car, a car's counter is the
\* number of bookings inserted for it less the creates that stand between
\* their insert and their increment, and it changes only by one, in the step
\* that answers a successful create for that car.
C19_CounterTracksCreates ==
    [][/\ CounterExact /\ CounterExact'
       /\ \A c \in CarIds :
            cars'[c].bookingCount # cars[c].bookingCount
            => /\ cars'[c].bookingCount = cars[c].bookingCount + 1
               /\ \E r \in Slots : /\ Finishes(r)
                                   /\ reqs'[r].op \in CreateOps
                                   /\ reqs'[r].id = c
                                   /\ reqs'[r].resp \in {200, 201}]_vars

\* One create for a car has incremented, another has inserted and not yet
\* incremented: the counter is one behind.
C19_CounterLags ==
    \E c \in CarIds :
        /\ cars[c].bookingCount = 1
        /\ Inserted(c) = 2
        /\ Incrementing(c) = 1

\* C20: every request that has been taken up is answered in the end.
C20_EveryRequestAnswered ==
    \A r \in Slots : Busy(r) ~> (reqs[r].pc = "done")

\* The dates and the price of a booking
Schedule(b) == <<b.startDate, b.endDate, b.totalPrice>>

\* C21: no step of a modify request changes the start, the end or the
\* totalPrice of a booking that is cancelled.
C21_CancelledNotModified ==
    [][\A r \in Slots :
         (Acts(r) /\ reqs'[r].op \in ModifyOps)
         => \A i \in BookingIds :
              bookings[i].bookingStatus = "cancelled"
              => /\ i <= Len(bookings')
                 /\ Schedule(bookings'[i]) = Schedule(bookings[i])]_vars

\* A create or modify request, on any route, whose start and end are both d
SameDayRequest(r, d) ==
    \/ CreateBooking_Begin(r, {d})
    \/ ModifyBooking_Begin(r, {d})
    \/ LegacyCreate_Begin(r, {d})
    \/ LegacyModify_Begin(r, {d})

\* C22: a create or modify request for a same-day range (end = start, a
\* valid instant) and a well-formed id is not turned away as a bad request,
\* on any route.
C22_SameDayAccepted ==
    [][\A r \in Slots, d \in Dates :
         (SameDayRequest(r, d) /\ ~reqs'[r].bad) => reqs'[r].resp # 400]_vars

\* C23: the update route, asked to update a car that does not exist under a
\* well-formed id, answers not found.
C23_AbsentCarNotFound ==
    [][\A r \in Slots :
         (/\ UpdateCar_Begin(r)
          /\ ObjectIdIsValid(reqs'[r].id)
          /\ reqs'[r].id \notin CarIds)
         => reqs'[r].resp = 404]_vars

\* C24: when a request whose connectDB returned without throwing next uses
\* the collection handles, cars and bookings are defined.
C24_HandlesDefinedAtUse ==
    [][\A r \in Slots :
         (calls[r].pc = "ready" /\ calls'[r].pc # "ready")
         => (conn.cars # Undefined /\ conn.bookings # Undefined)]_vars

\* C25: the module never reports ready with a handle undefined: whenever
\* initialized is true, client, cars and bookings are all defined.
C25_ReadyMeansDefined ==
    conn.initialized
    => /\ conn.client # Undefined
       /\ conn.cars # Undefined
       /\ conn.bookings # Undefined

\* A search without branch filter is answered in this step
SearchAnswered(r) ==
    /\ reqs[r].op = "search" /\ reqs[r].pc = "findCars"
    /\ reqs'[r].pc = "done" /\ reqs'[r].resp = 200
    /\ reqs'[r].loc[1] = ""

\* A create for a window from < to passes its overlap query in this step
CreateChecked(r) ==
    /\ reqs[r].op = "create" /\ reqs[r].pc = "findOverlap"
    /\ Acts(r)
    /\ Lt(reqs[r].s, reqs[r].e)

\* The availability of an existing car for a window from < to is answered
\* in this step
AvailabilityAnswered(r) ==
    /\ Arrives(r)
    /\ reqs'[r].op = "availability" /\ reqs'[r].resp = 200
    /\ reqs'[r].id \in CarIds
    /\ Lt(reqs'[r].s, reqs'[r].e)

\* C26: in one store state the three overlap checks agree: a search without
\* branch filter lists a car exactly when the availability query finds it
\* free for the window, a create is answered conflict exactly when the
\* availability query finds the car taken, and the availability route
\* answers true exactly when the overlap query of create finds nothing.
C26_OverlapChecksAgree ==
    [][\A r \in Slots :
         /\ SearchAnswered(r)
            => \A c \in CarIds :
                 c \in reqs'[r].loc[2]
                 <=> CheckAvailability(c, reqs[r].s, reqs[r].e)
         /\ CreateChecked(r)
            => (reqs'[r].resp = 409
                <=> ~CheckAvailability(reqs[r].id, reqs[r].s, reqs[r].e))
         /\ AvailabilityAnswered(r)
            => (reqs'[r].loc[1]
                <=> FindOverlap(reqs'[r].id, reqs'[r].s, reqs'[r].e) = {})]_vars

\* A search without branch filter has left out a car that the availability
\* query finds taken for the window.
C26_TakenCarLeftOut ==
    \E r \in Slots, c \in CarIds :
        /\ reqs[r].op = "search" /\ reqs[r].pc = "done"
        /\ reqs[r].resp = 200 /\ reqs[r].loc[1] = ""
        /\ c \notin reqs[r].loc[2]
        /\ ~CheckAvailability(c, reqs[r].s, reqs[r].e)

\* Booking i is matched by the overlap queries of the main routes, asked
\* about its car and its own range: the query of create, the availability
\* query and the distinct query of the search (the booked ranges use the
\* same carId comparison).
MatchedByMainQueries(i) ==
    LET b == bookings[i] IN
      /\ i \in FindOverlap(CarOf(b), b.startDate, b.endDate)
      /\ ~CheckAvailability(CarOf(b), b.startDate, b.endDate)
      /\ <<"oid", CarOf(b)>> \in OverlappedCarIds(b.startDate, b.endDate)

\* C27: every pending or confirmed booking, whichever route stored it, is
\* matched by the overlap queries for its car.
C27_ActiveBookingsVisible ==
    \A i \in BookingIds : Active(bookings[i]) => MatchedByMainQueries(i)

====
